---- MODULE Spec2Model ----
(***************************************************************************)
(* Verification model of the classiq-library notebooks:                    *)
(*   - community/womanium/assignments/Harshit_Agarwal_hw4.ipynb            *)
(*     (quantum walk on a line of 16 nodes),                               *)
(*   - the rainbow-options integration-method notebook (unnamed/part_000), *)
(*   - tutorials/classiq_concepts/repeat/repeat.ipynb (the repeat          *)
(*     statement).                                                         *)
(* A quantum register is followed through one computational-basis          *)
(* component of its state; gates that permute basis states act on that     *)
(* component, and a gate that creates a superposition draws the component. *)
(* Floating-point values are modelled in fixed point; the scale of each    *)
(* quantity is stated where it is defined.                                 *)
(***************************************************************************)
EXTENDS Integers, Sequences, FiniteSets, TLC

VARIABLES
    \* ---- quantum-walk notebook (hw4) ----
    wpc,        \* position in main / C_operator
    ci,         \* loop variable i of C_operator's for loop
    prob,       \* the list prob built by the last C_iteration call
    printed,    \* lines printed by C_iteration: <<i, prob>>
    vertices,   \* basis value carried by the vertices register (-1 before allocate)
    fired,      \* indices i whose control condition vertices == i held
    allocated,  \* registers allocated so far
    adjacent_vertices, \* basis value carried by adjacent_vertices (-1 before allocate)
    sres,       \* S_operator's res: -1 before edge_oracle, then 0 or 1
    si,         \* loop variable i of bitwise_swap's repeat
    s_in,       \* the basis values <<vertices, adjacent_vertices>> S_operator was entered with
    called,     \* the calls main has made so far, in order
    \* ---- rainbow-options notebook ----
    opc,        \* the next cell (or statement of a cell) to execute
    K,          \* the strike price set in cell 1
    c,          \* the global c of cell 6 (assigned twice)
    writes,     \* per global name: number of assignments executed so far
    computes,   \* per name: number of evaluations of its defining expression
    locals,     \* locals <<a, b>> of the last asset_geq_strike_price call
    c_read,     \* whether a consumer of c has run
    warned,     \* whether the strike-price warning has been displayed
    steps,      \* SDK calls made so far: <<cell, call>>
    qmod,       \* the model held by synthesize_and_execute's qmod
    artifact,   \* content of the file rainbow_options_integration_method.qmod
    qprog,      \* the program held by synthesize_and_execute's qprog
    iqae_res,   \* the result returned by execute(qprog).result()[0].value
    parsed_res, \* the value returned by post_process
    asserted,   \* outcome of the final assert of cell 19
    \* ---- precision utils applied to arbitrary inputs ----
    px,         \* the input value (5 digits)
    phist,      \* applications so far: <<function, argument, result>>
    \* ---- gaussian_discretization called with arbitrary arguments ----
    gin,        \* the arguments of the call
    gout,       \* the returned pair <<grid points, probabilities>>
    gdone,      \* whether the call has returned
    \* ---- repeat tutorial ----
    rpc,        \* the next statement of main
    ri,         \* the index i of the running repeat
    psi,        \* the five qubits of psi (a function 0..4 -> {0, 1}), <<>> before allocate
    phi,        \* the five qubits of phi
    psi0,       \* psi and phi as they were when the first repeat started
    phi0,
    rswaps,     \* the indices the running repeat has swapped, in order
    rdone,      \* number of repeat statements completed
    \* ---- zero_diffuzer applied to a basis state of x ----
    dpc,        \* the next step of zero_diffuzer
    dx,         \* the basis value of x
    aux,        \* the state of the auxiliary qubit: "none", "0", "1", "-"
    dsign,      \* the factor the basis state has acquired: 1 or -1
    dcalls,     \* the qfuncs invoked so far
    \* ---- integrator applied to basis states ----
    ipc,        \* the next statement of integrator
    ix,         \* the bits of x, read as an unsigned integer
    x_uint,     \* the value of x_uint ("none" while x holds the qubits)
    iref,       \* ref: its fraction_digits and its bits as unsigned integer
    ires,       \* the indicator qubit res
    ires0       \* res as it was when integrator was called

walkVars == <<wpc, ci, prob, printed, vertices, fired, allocated,
              adjacent_vertices, sres, si, s_in, called>>

optVars == <<opc, K, c, writes, computes, locals, c_read, warned, steps,
             qmod, artifact, qprog, iqae_res, parsed_res, asserted>>

precVars == <<px, phist>>

gaussVars == <<gin, gout, gdone>>

repVars == <<rpc, ri, psi, phi, psi0, phi0, rswaps, rdone>>

diffVars == <<dpc, dx, aux, dsign, dcalls>>

intVars == <<ipc, ix, x_uint, iref, ires, ires0>>

vars == <<walkVars, optVars, precVars, gaussVars, repVars, diffVars, intVars>>

otherThanWalk == <<optVars, precVars, gaussVars, repVars, diffVars, intVars>>

otherThanOpt == <<walkVars, precVars, gaussVars, repVars, diffVars, intVars>>

otherThanPrec == <<walkVars, optVars, gaussVars, repVars, diffVars, intVars>>

otherThanGauss == <<walkVars, optVars, precVars, repVars, diffVars, intVars>>

otherThanRep == <<walkVars, optVars, precVars, gaussVars, diffVars, intVars>>

otherThanDiff == <<walkVars, optVars, precVars, gaussVars, repVars, intVars>>

otherThanInt == <<walkVars, optVars, precVars, gaussVars, repVars, diffVars>>

(***************************************************************************)
(* Fixed-point arithmetic standing for Python/numpy floats.  A real r is    *)
(* held as the integer floor(r * 10^d); d is the number of decimal digits.  *)
(* Products and quotients are formed piecewise so that no intermediate      *)
(* value leaves the 32-bit range of the checker's integers.                 *)
(***************************************************************************)

Abs(x) == IF x < 0 THEN -x ELSE x

\* floor(x * y / 10^d), for 3 <= d <= 6
FMul(d, x, y) ==
    LET s  == 10^d
        q1 == x \div s
        r1 == x % s
        q2 == y \div s
        r2 == y % s
        hi == r1 \div 1000
        lo == r1 % 1000
    IN  q1 * q2 * s + q1 * r2 + q2 * r1
            + (hi * r2 + (lo * r2) \div 1000) \div (s \div 1000)

RECURSIVE LongDiv(_, _, _, _)
\* the next n decimal digits of r / y, appended to the quotient q
LongDiv(n, q, r, y) ==
    IF n = 0 THEN q
    ELSE LongDiv(n - 1, q * 10 + (r * 10) \div y, (r * 10) % y, y)

\* floor(x * 10^d / y), y # 0
FDiv(d, x, y) ==
    LET xx == IF y < 0 THEN -x ELSE x
        yy == Abs(y)
    IN  LongDiv(d, xx \div yy, xx % yy, yy)

RECURSIVE ISqrtSearch(_, _, _)
ISqrtSearch(n, lo, hi) ==
    IF lo >= hi THEN lo
    ELSE LET mid == (lo + hi + 1) \div 2
         IN  IF mid * mid <= n THEN ISqrtSearch(n, mid, hi)
                               ELSE ISqrtSearch(n, lo, mid - 1)

\* floor(sqrt(n)) for 0 <= n < 2^31
ISqrt(n) == ISqrtSearch(n, 0, 46340)

RECURSIVE SqrtUp(_, _, _)
\* x holds the radicand times 10^p; widen it by 100 while it fits, then root
SqrtUp(x, p, d) ==
    IF p + 2 <= d /\ x < 21474836 THEN SqrtUp(x * 100, p + 2, d)
    ELSE ISqrt(x) * 10^((d - p) \div 2)

\* np.sqrt of a d-digit fixed-point value x >= 0: floor-ish sqrt(x / 10^d) * 10^d
FSqrt(d, x) == SqrtUp(x * 10^(d % 2), d % 2, d)

RECURSIVE ExpSeries(_, _, _, _, _)
\* sum of the Taylor terms x^k / k! for k = k0 .. kmax, term being the k0-th
ExpSeries(d, x, term, k, kmax) ==
    IF k > kmax \/ term = 0 THEN 0
    ELSE term + ExpSeries(d, x, FMul(d, term, x) \div (k + 1), k + 1, kmax)

\* np.exp / symbolic exp: e^x; a negative argument goes through 1 / e^(-x)
FExp(d, x) ==
    IF x >= 0 THEN ExpSeries(d, x, 10^d, 0, 40)
    ELSE FDiv(d, 10^d, ExpSeries(d, -x, 10^d, 0, 40))

RECURSIVE AtanhSeries(_, _, _, _, _)
\* y + y^3/3 + y^5/5 + ... (pw is y^k, k odd)
AtanhSeries(d, y2, pw, k, kmax) ==
    IF k > kmax \/ pw = 0 THEN 0
    ELSE pw \div k + AtanhSeries(d, y2, FMul(d, pw, y2), k + 2, kmax)

RECURSIVE LnReduce(_, _, _)
\* <<m, e>> with x = m * 2^e and 1 <= m < 2 (as d-digit fixed point)
LnReduce(d, x, e) ==
    IF x >= 2 * 10^d THEN LnReduce(d, x \div 2, e + 1)
    ELSE IF x < 10^d THEN LnReduce(d, x * 2, e - 1)
    ELSE <<x, e>>

\* ln 2 to nine digits, cut to d digits
FLn2(d) == 693147180 \div 10^(9 - d)

\* np.log: natural logarithm of x > 0, ln x = e*ln 2 + 2*atanh((m-1)/(m+1))
FLn(d, x) ==
    LET me == LnReduce(d, x, 0)
        m  == me[1]
        y  == FDiv(d, m - 10^d, m + 10^d)
    IN  me[2] * FLn2(d) + 2 * AtanhSeries(d, FMul(d, y, y), y, 1, 41)

(***************************************************************************)
(* Quantum walk notebook                                                   *)
(***************************************************************************)

\* hw4 cell 3: size = 4
size == 4

\* num_nodes = 2**size (cell 3), and again 2**4 inside C_iteration / C_operator
num_nodes == 2^size

\* Probabilities of this notebook are counted in halves: 1.0 is 2, 0.5 is 1.
P_one == 2

P_half == 1

Nodes == 0 .. (num_nodes - 1)

\* prob = [0]*num_nodes
ZeroVec == [k \in Nodes |-> 0]

\* Mutant of C_iteration_prob: the interior branch forgets the right neighbour.
C_iteration_prob_OneSided(i) ==
    IF i = 0 THEN [ZeroVec EXCEPT ![i + 1] = P_one]
    ELSE IF i = num_nodes - 1 THEN [ZeroVec EXCEPT ![i - 1] = P_one]
    ELSE [ZeroVec EXCEPT ![i - 1] = P_half]

\* Mutant of C_iteration_prob: the endpoint branches write to the node itself
\* instead of its neighbour (prob[i] = 1.0).
C_iteration_prob_SelfLoop(i) ==
    IF i = 0 THEN [ZeroVec EXCEPT ![i] = P_one]
    ELSE IF i = num_nodes - 1 THEN [ZeroVec EXCEPT ![i] = P_one]
    ELSE [[ZeroVec EXCEPT ![i - 1] = P_half] EXCEPT ![i + 1] = P_half]

\* Mutant of C_iteration_prob: the interior weights are 1.0 instead of 0.5.
C_iteration_prob_FullWeights(i) ==
    IF i = 0 THEN [ZeroVec EXCEPT ![i + 1] = P_one]
    ELSE IF i = num_nodes - 1 THEN [ZeroVec EXCEPT ![i - 1] = P_one]
    ELSE [[ZeroVec EXCEPT ![i - 1] = P_one] EXCEPT ![i + 1] = P_one]

\* The classical part of C_iteration: the neighbour-probability vector of node i.
C_iteration_prob(i) ==
    IF i = 0 THEN [ZeroVec EXCEPT ![i + 1] = P_one]
    ELSE IF i = num_nodes - 1 THEN [ZeroVec EXCEPT ![i - 1] = P_one]
    ELSE [[ZeroVec EXCEPT ![i - 1] = P_half] EXCEPT ![i + 1] = P_half]

\* Placeholders of iqae_res and parsed_res before they are assigned.
NoResult == [estimation |-> -1, confidence_interval |-> <<-1, -1>>]

NoParsed == <<0, <<0, 0>>>>

\* The rainbow-options notebook is not running.
OptIdle ==
    /\ opc = "idle"
    /\ K = 0
    /\ c = 0
    /\ writes = <<>>
    /\ computes = <<>>
    /\ locals = <<>>
    /\ c_read = FALSE
    /\ warned = FALSE
    /\ steps = <<>>
    /\ qmod = "none"
    /\ artifact = "none"
    /\ qprog = "none"
    /\ iqae_res = NoResult
    /\ parsed_res = NoParsed
    /\ asserted = "none"

\* The precision utils are not being exercised.
PrecIdle ==
    /\ px = 0
    /\ phist = <<>>

\* gaussian_discretization is not being exercised.
GaussIdle ==
    /\ gin = [num_qubits |-> 0, mu |-> 0, sigma |-> 0, stds |-> 0]
    /\ gout = << <<>>, <<>> >>
    /\ gdone = FALSE

\* The repeat tutorial is not running.
RepIdle ==
    /\ rpc = "idle"
    /\ ri = 0
    /\ psi = <<>>
    /\ phi = <<>>
    /\ psi0 = <<>>
    /\ phi0 = <<>>
    /\ rswaps = <<>>
    /\ rdone = 0

\* zero_diffuzer is not being exercised.
DiffIdle ==
    /\ dpc = "idle"
    /\ dx = 0
    /\ aux = "none"
    /\ dsign = 1
    /\ dcalls = <<>>

\* integrator is not being exercised.
IntIdle ==
    /\ ipc = "idle"
    /\ ix = 0
    /\ x_uint = "none"
    /\ iref = [fraction_digits |-> 0, bits |-> 0]
    /\ ires = 0
    /\ ires0 = 0

RECURSIVE SumVec(_, _)
SumVec(v, n) == IF n = 0 THEN 0 ELSE v[n - 1] + SumVec(v, n - 1)

WalkInit ==
    /\ wpc = "start"
    /\ ci = 0
    /\ prob = ZeroVec
    /\ printed = <<>>
    /\ vertices = -1
    /\ fired = {}
    /\ allocated = {}
    /\ adjacent_vertices = -1
    /\ sres = -1
    /\ si = 0
    /\ s_in = <<>>
    /\ called = <<>>
    /\ OptIdle
    /\ PrecIdle
    /\ GaussIdle
    /\ RepIdle
    /\ DiffIdle
    /\ IntIdle

\* zero_diffuzer: the qfuncs invoked by the action of its within_apply.  The
\* action is  lambda: diffuzer_oracle : the body names the function and
\* returns it; nothing is called (the recorded run synthesizes this model).
zero_diffuzer_action == <<>>

\* diffuzer_oracle: aux ^= (x != 0) -- whether aux is flipped for basis value x
diffuzer_oracle(x) == x # 0

\* The factor a basis state |x> acquires from an invoked qfunc q while aux is
\* in the state |->: flipping |-> gives -|->.
ActionFactor(q, x) == IF q = "diffuzer_oracle" /\ diffuzer_oracle(x) THEN -1 ELSE 1

RECURSIVE ActionFactors(_, _)
ActionFactors(qs, x) ==
    IF qs = <<>> THEN 1 ELSE ActionFactor(Head(qs), x) * ActionFactors(Tail(qs), x)

\* zero_diffuzer(x) on the basis state |x>: within_apply(prepare_minus(aux),
\* action) multiplies |x> by the factors of the action's calls.
zero_diffuzer(x) == ActionFactors(zero_diffuzer_action, x)

\* C_iteration's operand  within_apply(compute = inplace_prepare_state(prob, ..),
\* action = zero_diffuzer(adjacent_vertices)) : U P U^dagger on adjacent_vertices.
\* When P multiplies no basis state by -1 it is the identity and so is the
\* operand; otherwise the result is spread over k and the support of prob.
CoinOperand(i, k) ==
    IF \A x \in Nodes : zero_diffuzer(x) = 1 THEN {k}
    ELSE {k} \cup {n \in Nodes : C_iteration_prob(i)[n] > 0}

\* bit i of the basis value v
Bit(v, i) == (v \div 2^i) % 2

\* SWAP(x[i], y[i]) on the basis values x, y: the pair after the exchange
SWAP(x, y, i) ==
    << x + (Bit(y, i) - Bit(x, i)) * 2^i, y + (Bit(x, i) - Bit(y, i)) * 2^i >>

\* Mutant of edge_oracle: only the difference +1 is recognised.
edge_oracle_OneSided(j, k) == IF (j - k) = 1 THEN 1 ELSE 0

\* edge_oracle: res |= (((vertices - adjacent_vertices) == 1)
\*                      | ((vertices - adjacent_vertices) == -1))
edge_oracle(j, k) == IF ((j - k) = 1) \/ ((j - k) = -1) THEN 1 ELSE 0

\* main: allocate(size, vertices)
AllocateVertices ==
    /\ wpc = "start"
    /\ allocated' = allocated \cup {"vertices"}
    /\ vertices' = 0
    /\ called' = Append(called, <<"allocate", {"vertices"}>>)
    /\ wpc' = "hadamard"
    /\ UNCHANGED <<ci, prob, printed, fired, adjacent_vertices, sres, si, s_in,
                   otherThanWalk>>

\* main: hadamard_transform(vertices): every basis value 0..15 is in the support
HadamardTransform ==
    /\ wpc = "hadamard"
    /\ \E v \in Nodes : vertices' = v
    /\ called' = Append(called, <<"hadamard_transform", {"vertices"}>>)
    /\ wpc' = "alloc_adjacent"
    /\ UNCHANGED <<ci, prob, printed, fired, allocated, adjacent_vertices, sres,
                   si, s_in, otherThanWalk>>

\* Mutant of AllocateAdjacent: main goes on to C_operator without the
\* allocation of adjacent_vertices.
AllocateAdjacent_Missing ==
    /\ wpc = "alloc_adjacent"
    /\ wpc' = "call_C_operator"
    /\ UNCHANGED <<ci, prob, printed, vertices, fired, allocated,
                   adjacent_vertices, sres, si, s_in, called, otherThanWalk>>

\* main: allocate(size, adjacent_vertices)
AllocateAdjacent ==
    /\ wpc = "alloc_adjacent"
    /\ allocated' = allocated \cup {"adjacent_vertices"}
    /\ adjacent_vertices' = 0
    /\ called' = Append(called, <<"allocate", {"adjacent_vertices"}>>)
    /\ wpc' = "call_C_operator"
    /\ UNCHANGED <<ci, prob, printed, vertices, fired, sres, si, s_in, otherThanWalk>>

\* main: C_operator(vertices, adjacent_vertices) -- the call; the loop starts
C_operator ==
    /\ wpc = "call_C_operator"
    /\ called' = Append(called, <<"C_operator", {"vertices", "adjacent_vertices"}>>)
    /\ ci' = 0
    /\ wpc' = "C_operator"
    /\ UNCHANGED <<prob, printed, vertices, fired, allocated, adjacent_vertices,
                   sres, si, s_in, otherThanWalk>>

\* C_operator: one pass of  for i in range(num_nodes): C_iteration(i, ...)
\* The operand of control(ctrl = vertices == i, ...) acts when vertices = i.
C_iteration ==
    /\ wpc = "C_operator"
    /\ ci < num_nodes
    /\ prob' = C_iteration_prob(ci)
    /\ printed' = Append(printed, <<ci, prob'>>)
    /\ fired' = IF vertices = ci THEN fired \cup {ci} ELSE fired
    /\ IF vertices = ci
       THEN \E k \in CoinOperand(ci, adjacent_vertices) : adjacent_vertices' = k
       ELSE adjacent_vertices' = adjacent_vertices
    /\ ci' = ci + 1
    /\ UNCHANGED <<wpc, vertices, allocated, sres, si, s_in, called, otherThanWalk>>

\* Mutant of C_operatorReturn: the loop may be left before its last pass.
C_operatorReturn_Early ==
    /\ wpc = "C_operator"
    /\ ci >= num_nodes - 1
    /\ wpc' = "S_operator"
    /\ UNCHANGED <<ci, prob, printed, vertices, fired, allocated,
                   adjacent_vertices, sres, si, s_in, called, otherThanWalk>>

\* C_operator returns when range(num_nodes) is exhausted
C_operatorReturn ==
    /\ wpc = "C_operator"
    /\ ci = num_nodes
    /\ wpc' = "S_operator"
    /\ UNCHANGED <<ci, prob, printed, vertices, fired, allocated,
                   adjacent_vertices, sres, si, s_in, called, otherThanWalk>>

\* S_operator(vertices, adjacent_vertices): res = QNum('res');
\* edge_oracle(res, vertices, adjacent_vertices)
S_operator ==
    /\ wpc = "S_operator"
    /\ called' = Append(called, <<"S_operator", {"vertices", "adjacent_vertices"}>>)
    /\ sres' = edge_oracle(vertices, adjacent_vertices)
    /\ si' = 0
    /\ s_in' = <<vertices, adjacent_vertices>>
    /\ wpc' = "bitwise_swap"
    /\ UNCHANGED <<ci, prob, printed, vertices, fired, allocated,
                   adjacent_vertices, otherThanWalk>>

\* S_operator: control(ctrl = res == 1, operand = bitwise_swap(...)); one
\* iteration of bitwise_swap's  repeat(count = x.len, SWAP(x[i], y[i]))
bitwise_swap ==
    /\ wpc = "bitwise_swap"
    /\ si < size
    /\ vertices' = IF sres = 1 THEN SWAP(vertices, adjacent_vertices, si)[1]
                   ELSE vertices
    /\ adjacent_vertices' = IF sres = 1 THEN SWAP(vertices, adjacent_vertices, si)[2]
                            ELSE adjacent_vertices
    /\ si' = si + 1
    /\ UNCHANGED <<wpc, ci, prob, printed, fired, allocated, sres, s_in, called,
                   otherThanWalk>>

\* the repeat is exhausted: S_operator returns, and with it main
S_operatorReturn ==
    /\ wpc = "bitwise_swap"
    /\ si = size
    /\ wpc' = "done"
    /\ UNCHANGED <<ci, prob, printed, vertices, fired, allocated,
                   adjacent_vertices, sres, si, s_in, called, otherThanWalk>>

WalkNext ==
    \/ AllocateVertices
    \/ HadamardTransform
    \/ AllocateAdjacent
    \/ C_operator
    \/ C_iteration
    \/ C_operatorReturn
    \/ S_operator
    \/ bitwise_swap
    \/ S_operatorReturn

WalkSpec == WalkInit /\ [][WalkNext]_vars

\* The steps of main follow one another without outside scheduling.
WalkFairSpec == WalkSpec /\ WF_vars(WalkNext)

(***************************************************************************)
(* Rainbow-options notebook: inputs and derived constants.                 *)
(* Unless said otherwise a value is held with 5 decimal digits.            *)
(***************************************************************************)

ONE == 10^5

OMul(x, y) == FMul(5, x, y)

ODiv(x, y) == FDiv(5, x, y)

OExp(x) == FExp(5, x)

OLn(x) == FLn(5, x)

\* cell 1: NUM_QUBITS = 2, NUM_ASSETS = 2
NUM_QUBITS == 2

NUM_ASSETS == 2

\* cell 1: K = 190 -- the strike price of the notebook as published
K_published == 190

\* cell 1: S0 = [193.97, 189.12]
S0 == <<19397000, 18912000>>

\* cell 1: dt = 250
dt == 250

\* cell 1: COV = np.array([[0.000335, 0.000257], [0.000257, 0.000418]]),
\* held with 6 decimal digits
COV == << <<335, 257>>, <<257, 418>> >>

\* cell 1: MU_LOG_RET = np.array([0.00050963, 0.00062552]), held with 8 digits
MU_LOG_RET == <<50963, 62552>>

\* cell 2: MU = MU_LOG_RET * dt
MU == [j \in 1 .. NUM_ASSETS |-> (MU_LOG_RET[j] * dt) \div 1000]

\* np.linalg.cholesky of a 2x2 matrix (6 digits): the lower-triangular L
\* with L L^T = m
Cholesky2(m) ==
    LET l11 == FSqrt(6, m[1][1])
        l21 == FDiv(6, m[2][1], l11)
        l22 == FSqrt(6, m[2][2] - FMul(6, l21, l21))
    IN  << <<l11, 0>>, <<l21, l22>> >>

\* cell 2: CHOLESKY = np.linalg.cholesky(COV) * np.sqrt(dt)
CHOLESKY ==
    LET l == Cholesky2(COV)
        r == FSqrt(5, dt * ONE)
    IN  [i \in 1 .. 2 |-> [j \in 1 .. 2 |-> FMul(6, l[i][j], r)]]

\* cell 2: SCALING_FACTOR = 1 / CHOLESKY[0, 0]
SCALING_FACTOR == ODiv(ONE, CHOLESKY[1][1])

(***************************************************************************)
(* cell 3: gaussian_discretization.  Values are held with 6 decimal digits.*)
(***************************************************************************)

GONE == 10^6

\* 1 / sqrt(2 pi) with 6 digits
InvSqrt2Pi == 398942

RECURSIVE CdfSeries(_, _, _, _)
\* z + z^3/3 + z^5/(3*5) + ... ; term is the k-th summand
CdfSeries(z2, term, k, kmax) ==
    IF k > kmax \/ term = 0 THEN 0
    ELSE term + CdfSeries(z2, FMul(6, term, z2) \div (2 * k + 3), k + 1, kmax)

\* the standard normal density at z
StdPdf(z) == FMul(6, FExp(6, -(FMul(6, z, z) \div 2)), InvSqrt2Pi)

\* the standard normal distribution function at z >= 0:
\* 1/2 + pdf(z) * (z + z^3/3 + z^5/15 + ...)
StdCdfPos(z) ==
    LET v == GONE \div 2 + FMul(6, CdfSeries(FMul(6, z, z), z, 0, 80), StdPdf(z))
    IN  IF v > GONE THEN GONE ELSE v

\* scipy.stats.norm.cdf(x, loc=_mu, scale=_sigma)
NormCdf(x, mu, sigma) ==
    LET z == FDiv(6, x - mu, sigma)
    IN  IF z < 0 THEN GONE - StdCdfPos(-z) ELSE StdCdfPos(z)

\* np.linspace(lower, upper, num): num points, the last one set to upper
Linspace(lower, upper, num) ==
    LET step == (upper - lower) \div (num - 1)
    IN  [j \in 1 .. num |-> IF j = num THEN upper ELSE lower + (j - 1) * step]

RECURSIVE SumSeq(_, _)
SumSeq(q, n) == IF n = 0 THEN 0 ELSE q[n] + SumSeq(q, n - 1)

\* single_gaussian: cdf[1:] - cdf[0:-1]
single_gaussian(x, mu, sigma) ==
    [j \in 1 .. (Len(x) - 1) |->
        NormCdf(x[j + 1], mu, sigma) - NormCdf(x[j], mu, sigma)]

\* Mutant of gaussian_discretization: the pmf is returned without the
\* division by its sum.
gaussian_discretization_NotNormalized(num_qubits, mu, sigma, stds) ==
    LET lower == mu - stds * sigma
        upper == mu + stds * sigma
        num_of_bins == 2^num_qubits
        sample_points == Linspace(lower, upper, num_of_bins + 1)
        non_normalized_pmf == single_gaussian(sample_points, mu, sigma)
    IN  << SubSeq(sample_points, 1, num_of_bins), non_normalized_pmf >>

\* gaussian_discretization(num_qubits, mu, sigma, stds_around_mean_to_include):
\* returns <<sample_points[:-1], real_probs>>
gaussian_discretization(num_qubits, mu, sigma, stds) ==
    LET lower == mu - stds * sigma
        upper == mu + stds * sigma
        num_of_bins == 2^num_qubits
        sample_points == Linspace(lower, upper, num_of_bins + 1)
        non_normalized_pmf == single_gaussian(sample_points, mu, sigma)
        total == SumSeq(non_normalized_pmf, num_of_bins)
        real_probs == [j \in 1 .. num_of_bins |->
                          FDiv(6, non_normalized_pmf[j], total)]
    IN  << SubSeq(sample_points, 1, num_of_bins), real_probs >>

\* cell 3: grid_points, probabilities = gaussian_discretization(NUM_QUBITS)
\* (defaults mu=0, sigma=1, stds_around_mean_to_include=3)
grid_points == gaussian_discretization(NUM_QUBITS, 0, GONE, 3)[1]

probabilities == gaussian_discretization(NUM_QUBITS, 0, GONE, 3)[2]

\* cell 3: STEP_X = grid_points[1] - grid_points[0]   (5 digits)
STEP_X == (grid_points[2] - grid_points[1]) \div 10

\* cell 3: MIN_X = grid_points[0]   (5 digits)
MIN_X == grid_points[1] \div 10

(***************************************************************************)
(* cell 4 (strike-price guard), cell 5 (precision utils), cell 6 (affine   *)
(* constants), cell 17 (post-processing): the classical formulas.          *)
(***************************************************************************)

\* max(S0 * np.exp(np.dot(CHOLESKY, [grid_points[-1]] * 2) + MU))
MaxAssetValue ==
    LET g == grid_points[Len(grid_points)] \div 10
        v == [i \in 1 .. NUM_ASSETS |->
                 OMul(S0[i],
                      OExp(OMul(CHOLESKY[i][1], g) + OMul(CHOLESKY[i][2], g) + MU[i]))]
    IN  IF v[1] >= v[2] THEN v[1] ELSE v[2]

\* cell 4: if K >= max(...)  -- k is the strike price in whole currency units
StrikeGuard(k) == k * ONE >= MaxAssetValue

\* cell 5: FRAC_PLACES = 2
FRAC_PLACES == 2

\* Python's round(): to the nearest integer, a tie going to the even one
PyRound(v) ==
    LET q == v \div ONE
        r == v % ONE
    IN  IF 2 * r < ONE THEN q
        ELSE IF 2 * r > ONE THEN q + 1
        ELSE IF q % 2 = 0 THEN q ELSE q + 1

\* np.floor()
NpFloor(v) == v \div ONE

\* Mutant of round_factor: the quotient uses twice the precision factor.
round_factor_WrongDivisor(x) ==
    LET precision_factor == 2^FRAC_PLACES
    IN  (PyRound(x * precision_factor) * ONE) \div (2 * precision_factor)

\* def round_factor(a): return round(a * precision_factor) / precision_factor
round_factor(x) ==
    LET precision_factor == 2^FRAC_PLACES
    IN  (PyRound(x * precision_factor) * ONE) \div precision_factor

\* def floor_factor(a): return np.floor(a * precision_factor) / precision_factor
floor_factor(x) ==
    LET precision_factor == 2^FRAC_PLACES
    IN  (NpFloor(x * precision_factor) * ONE) \div precision_factor

\* cell 6: a = STEP_X / SCALING_FACTOR
a == ODiv(STEP_X, SCALING_FACTOR)

\* cell 6: b = np.log(S0[0]) + MU[0] + MIN_X * CHOLESKY[0].sum()
b == OLn(S0[1]) + MU[1] + OMul(MIN_X, CHOLESKY[1][1] + CHOLESKY[1][2])

\* cell 6: the first value given to c (before c = round_factor(c))
c_raw ==
    ODiv(OMul(SCALING_FACTOR,
              OLn(S0[2]) + MU[2] - (OLn(S0[1]) + MU[1])
                + OMul(MIN_X, (CHOLESKY[2][1] - CHOLESKY[1][1])
                              + (CHOLESKY[2][2] - CHOLESKY[1][2]))),
         STEP_X)

\* cell 6: MAX_NUM_QUBITS = calculate_max_reg_type()[0].  The value is the one
\* the SDK's get_expression_numeric_attributes returned in the recorded run:
\* the recorded output of cell 18 fixes (exp(2^n * a/4) - 1) * C / e^(a/4)
\* to 2590.5, which gives n = 5.
MAX_NUM_QUBITS == 5

\* cell 6: MAX_FRAC_PLACES = calculate_max_reg_type()[1]  (recorded run: 2)
MAX_FRAC_PLACES == 2

\* parse_result_integration: exp_rate = (1 / (2**MAX_FRAC_PLACES)) * a
exp_rate == OMul(ODiv(ONE, (2^MAX_FRAC_PLACES) * ONE), a)

\* parse_result_integration: B = (np.exp((2**MAX_NUM_QUBITS) * exp_rate) - 1) / np.exp(exp_rate)
PB == ODiv(OExp((2^MAX_NUM_QUBITS) * exp_rate) - ONE, OExp(exp_rate))

\* parse_result_integration: A = 1 / np.exp(exp_rate)
PA == ODiv(ONE, OExp(exp_rate))

\* parse_result_integration: C = S0[0] * np.exp((MU[0] + MIN_X * CHOLESKY[0].sum()))
PC == OMul(S0[1], OExp(MU[1] + OMul(MIN_X, CHOLESKY[1][1] + CHOLESKY[1][2])))

\* option_value = (iqae_res.estimation * (C * B)) + (C * A) - K
option_value(estimation, k) ==
    OMul(estimation, OMul(PC, PB)) + OMul(PC, PA) - k * ONE

\* Mutant of confidence_interval: the interval is scaled but the strike price
\* is not subtracted.
confidence_interval_NoStrike(interval, k) ==
    [e \in 1 .. 2 |-> OMul(interval[e], OMul(PC, PB)) + OMul(PC, PA)]

\* confidence_interval = (np.array(iqae_res.confidence_interval) * (C * B)) + (C * A) - K
confidence_interval(interval, k) ==
    [e \in 1 .. 2 |-> OMul(interval[e], OMul(PC, PB)) + OMul(PC, PA) - k * ONE]

(***************************************************************************)
(* Rainbow-options notebook: the cells in execution order.                 *)
(* Cells that only define functions or import names (5, 7..11, 13..17)     *)
(* change no state; the position moves past them with the preceding cell.  *)
(***************************************************************************)

\* The globals the data model lists as parameters and derived constants.
Names ==
    {"K", "S0", "dt", "COV", "MU", "CHOLESKY", "SCALING_FACTOR", "STEP_X",
     "MIN_X", "a", "b", "c", "MAX_NUM_QUBITS", "MAX_FRAC_PLACES"}

\* Strike prices a user of the notebook may set in cell 1 (190 as published).
StrikePrices == {K_published, 300, 439, 500}

\* Amplitudes the SDK's iqae may report (5 digits); 0.04653, 0.05190 and
\* 0.05727 are those of the recorded run.
RawValues == {0, 3000, 4653, 5190, 5727, 13000, 100000}

Bump(f, S) == [n \in Names |-> IF n \in S THEN f[n] + 1 ELSE f[n]]

\* The walk notebook is not running.
WalkIdle ==
    /\ wpc = "idle"
    /\ ci = 0
    /\ prob = ZeroVec
    /\ printed = <<>>
    /\ vertices = -1
    /\ fired = {}
    /\ allocated = {}
    /\ adjacent_vertices = -1
    /\ sres = -1
    /\ si = 0
    /\ s_in = <<>>
    /\ called = <<>>

Init ==
    /\ WalkIdle
    /\ PrecIdle
    /\ GaussIdle
    /\ RepIdle
    /\ DiffIdle
    /\ IntIdle
    /\ opc = "cell1"
    /\ K \in StrikePrices
    /\ c = 0
    /\ writes = [n \in Names |-> 0]
    /\ computes = [n \in Names |-> 0]
    /\ locals = <<>>
    /\ c_read = FALSE
    /\ warned = FALSE
    /\ steps = <<>>
    /\ qmod = "none"
    /\ artifact = "none"
    /\ qprog = "none"
    /\ iqae_res = NoResult
    /\ parsed_res = NoParsed
    /\ asserted = "none"

\* cell 1: K, S0, dt, COV (and NUM_QUBITS, NUM_ASSETS, MU_LOG_RET) are assigned
Cell1_Parameters ==
    /\ opc = "cell1"
    /\ writes' = Bump(writes, {"K", "S0", "dt", "COV"})
    /\ computes' = Bump(computes, {"K", "S0", "dt", "COV"})
    /\ opc' = "cell2"
    /\ UNCHANGED <<otherThanOpt, K, c, locals, c_read, warned, steps, qmod,
                   artifact, qprog, iqae_res, parsed_res, asserted>>

\* cell 2: MU, CHOLESKY, SCALING_FACTOR
Cell2_Derived ==
    /\ opc = "cell2"
    /\ writes' = Bump(writes, {"MU", "CHOLESKY", "SCALING_FACTOR"})
    /\ computes' = Bump(computes, {"MU", "CHOLESKY", "SCALING_FACTOR"})
    /\ opc' = "cell3"
    /\ UNCHANGED <<otherThanOpt, K, c, locals, c_read, warned, steps, qmod,
                   artifact, qprog, iqae_res, parsed_res, asserted>>

\* cell 3: grid_points, probabilities, STEP_X, MIN_X
Cell3_Discretization ==
    /\ opc = "cell3"
    /\ writes' = Bump(writes, {"STEP_X", "MIN_X"})
    /\ computes' = Bump(computes, {"STEP_X", "MIN_X"})
    /\ opc' = "cell4"
    /\ UNCHANGED <<otherThanOpt, K, c, locals, c_read, warned, steps, qmod,
                   artifact, qprog, iqae_res, parsed_res, asserted>>

\* cell 4: if K >= max(...): display(Markdown(...)).  The if has no else and
\* raises nothing: the notebook goes on with cell 5 (definitions) and cell 6.
Cell4_StrikeGuard ==
    /\ opc = "cell4"
    /\ warned' = StrikeGuard(K)
    /\ opc' = "cell6"
    /\ UNCHANGED <<otherThanOpt, K, c, writes, computes, locals, c_read, steps,
                   qmod, artifact, qprog, iqae_res, parsed_res, asserted>>

\* cell 6, first statements: a = ..., b = ..., c = ( ... ) / STEP_X
Cell6_AssignABC ==
    /\ opc = "cell6"
    /\ c' = c_raw
    /\ writes' = Bump(writes, {"a", "b", "c"})
    /\ computes' = Bump(computes, {"a", "b", "c"})
    /\ opc' = "cell6_round"
    /\ UNCHANGED <<otherThanOpt, K, locals, c_read, warned, steps, qmod,
                   artifact, qprog, iqae_res, parsed_res, asserted>>

\* cell 6: c = round_factor(c)
Cell6_RoundC ==
    /\ opc = "cell6_round"
    /\ c' = round_factor(c)
    /\ writes' = Bump(writes, {"c"})
    /\ opc' = "cell6_maxreg"
    /\ UNCHANGED <<otherThanOpt, K, computes, locals, c_read, warned, steps, qmod,
                   artifact, qprog, iqae_res, parsed_res, asserted>>

\* cell 6: MAX_NUM_QUBITS = calculate_max_reg_type()[0]
\*         MAX_FRAC_PLACES = calculate_max_reg_type()[1]
\* calculate_max_reg_type reads c (and CHOLESKY, SCALING_FACTOR) and assigns
\* only its own locals.
Cell6_MaxRegType ==
    /\ opc = "cell6_maxreg"
    /\ c_read' = TRUE
    /\ writes' = Bump(writes, {"MAX_NUM_QUBITS", "MAX_FRAC_PLACES"})
    /\ computes' = Bump(computes, {"MAX_NUM_QUBITS", "MAX_FRAC_PLACES"})
    /\ opc' = "cell12"
    /\ UNCHANGED <<otherThanOpt, K, c, locals, warned, steps, qmod, artifact,
                   qprog, iqae_res, parsed_res, asserted>>

\* Mutant of asset_geq_strike_price_assigns: a and b declared global.
asset_geq_strike_price_assigns_Global == {"a", "b"}

\* asset_geq_strike_price: the globals the function body assigns.  Its a, b
\* and COMP_VALUE are locals of the function: none.
asset_geq_strike_price_assigns == {}

\* asset_geq_strike_price: a = STEP_X / SCALING_FACTOR   (local)
local_a == ODiv(STEP_X, SCALING_FACTOR)

\* asset_geq_strike_price: b = np.log(S0[0]) + MU[0] + MIN_X * CHOLESKY[0].sum()
local_b == OLn(S0[1]) + MU[1] + OMul(MIN_X, CHOLESKY[1][1] + CHOLESKY[1][2])

\* The effect on the bookkeeping of expanding rainbow_integration once:
\* affine_max reads c, asset_geq_strike_price evaluates its locals a and b.
ExpandRainbowIntegration ==
    /\ c_read' = TRUE
    /\ locals' = <<local_a, local_b>>
    /\ computes' = Bump(computes, {"a", "b"})
    /\ writes' = Bump(writes, asset_geq_strike_price_assigns)

\* cell 12: qmod = create_model(main, ...); qprog = synthesize(qmod); show(qprog)
Cell12_Synthesize ==
    /\ opc = "cell12"
    /\ ExpandRainbowIntegration
    /\ steps' = steps \o << <<12, "create_model">>, <<12, "synthesize">>,
                            <<12, "show">> >>
    /\ opc' = "cell18"
    /\ UNCHANGED <<otherThanOpt, K, c, warned, qmod, artifact, qprog, iqae_res,
                   parsed_res, asserted>>

\* cell 12: synthesize raises (the SDK's failure): the run of the notebook ends
Cell12_SynthesizeRaises ==
    /\ opc = "cell12"
    /\ ExpandRainbowIntegration
    /\ steps' = steps \o << <<12, "create_model">>, <<12, "synthesize">> >>
    /\ opc' = "error"
    /\ UNCHANGED <<otherThanOpt, K, c, warned, qmod, artifact, qprog, iqae_res,
                   parsed_res, asserted>>

\* def parse_result_integration(iqae_res): return (option_value, confidence_interval)
parse_result_integration(res, k) ==
    << option_value(res.estimation, k),
       confidence_interval(res.confidence_interval, k) >>

\* Mutant of SAE_CreateModel: the model is handed to synthesize without
\* being written to the artifact file.
SAE_CreateModel_SkipWrite ==
    /\ opc = "cell18"
    /\ qmod' = "main_model"
    /\ ExpandRainbowIntegration
    /\ steps' = Append(steps, <<18, "create_model">>)
    /\ opc' = "sae_synthesize"
    /\ UNCHANGED <<otherThanOpt, K, c, warned, artifact, qprog, iqae_res,
                   parsed_res, asserted>>

\* synthesize_and_execute: qmod = create_model(get_main(), ...)
SAE_CreateModel ==
    /\ opc = "cell18"
    /\ qmod' = "main_model"
    /\ ExpandRainbowIntegration
    /\ steps' = Append(steps, <<18, "create_model">>)
    /\ opc' = "sae_write"
    /\ UNCHANGED <<otherThanOpt, K, c, warned, artifact, qprog, iqae_res,
                   parsed_res, asserted>>

\* synthesize_and_execute: write_qmod(qmod, "rainbow_options_integration_method")
SAE_WriteQmod ==
    /\ opc = "sae_write"
    /\ artifact' = qmod
    /\ steps' = Append(steps, <<18, "write_qmod">>)
    /\ opc' = "sae_synthesize"
    /\ UNCHANGED <<otherThanOpt, K, c, writes, computes, locals, c_read, warned,
                   qmod, qprog, iqae_res, parsed_res, asserted>>

\* synthesize_and_execute: qprog = synthesize(qmod)
SAE_Synthesize ==
    /\ opc = "sae_synthesize"
    /\ qprog' = IF qmod = "none" THEN "invalid" ELSE "program"
    /\ steps' = Append(steps, <<18, "synthesize">>)
    /\ opc' = "sae_show"
    /\ UNCHANGED <<otherThanOpt, K, c, writes, computes, locals, c_read, warned,
                   qmod, artifact, iqae_res, parsed_res, asserted>>

\* synthesize raises: synthesize_and_execute is left by the exception
SAE_SynthesizeRaises ==
    /\ opc = "sae_synthesize"
    /\ steps' = Append(steps, <<18, "synthesize">>)
    /\ opc' = "error"
    /\ UNCHANGED <<otherThanOpt, K, c, writes, computes, locals, c_read, warned,
                   qmod, artifact, qprog, iqae_res, parsed_res, asserted>>

\* synthesize_and_execute: show(qprog)
SAE_Show ==
    /\ opc = "sae_show"
    /\ steps' = Append(steps, <<18, "show">>)
    /\ opc' = "sae_execute"
    /\ UNCHANGED <<otherThanOpt, K, c, writes, computes, locals, c_read, warned,
                   qmod, artifact, qprog, iqae_res, parsed_res, asserted>>

\* synthesize_and_execute: res = execute(qprog).result(); iqae_res = res[0].value
\* The SDK returns an estimation and a confidence interval (low <= high).
SAE_Execute ==
    /\ opc = "sae_execute"
    /\ \E e \in RawValues, lo \in RawValues, hi \in RawValues :
          /\ lo <= hi
          /\ iqae_res' = [estimation |-> e, confidence_interval |-> <<lo, hi>>]
    /\ steps' = Append(steps, <<18, "execute">>)
    /\ opc' = "sae_post"
    /\ UNCHANGED <<otherThanOpt, K, c, writes, computes, locals, c_read, warned,
                   qmod, artifact, qprog, parsed_res, asserted>>

\* execute raises
SAE_ExecuteRaises ==
    /\ opc = "sae_execute"
    /\ steps' = Append(steps, <<18, "execute">>)
    /\ opc' = "error"
    /\ UNCHANGED <<otherThanOpt, K, c, writes, computes, locals, c_read, warned,
                   qmod, artifact, qprog, iqae_res, parsed_res, asserted>>

\* synthesize_and_execute: parsed_res = post_process(res[0].value); return.
\* Cell 18 then unpacks result, conf_interval = parsed_res and prints them.
SAE_PostProcess ==
    /\ opc = "sae_post"
    /\ parsed_res' = parse_result_integration(iqae_res, K)
    /\ steps' = Append(steps, <<18, "post_process">>)
    /\ opc' = "cell19"
    /\ UNCHANGED <<otherThanOpt, K, c, writes, computes, locals, c_read, warned,
                   qmod, artifact, qprog, iqae_res, asserted>>

\* Mutant of AssertionHolds: the interval must lie inside [-5, 45].
AssertionHolds_Containment(conf_interval) ==
    -5 * ONE <= conf_interval[1] /\ conf_interval[2] <= 45 * ONE

\* cell 19: assert not (conf_interval[1] < -5 or 45 < conf_interval[0])
AssertionHolds(conf_interval) ==
    ~ (conf_interval[2] < -5 * ONE \/ 45 * ONE < conf_interval[1])

Cell19_Assert ==
    /\ opc = "cell19"
    /\ asserted' = IF AssertionHolds(parsed_res[2]) THEN "passed" ELSE "failed"
    /\ opc' = IF AssertionHolds(parsed_res[2]) THEN "done" ELSE "error"
    /\ UNCHANGED <<otherThanOpt, K, c, writes, computes, locals, c_read, warned,
                   steps, qmod, artifact, qprog, iqae_res, parsed_res>>

Next ==
    \/ Cell1_Parameters
    \/ Cell2_Derived
    \/ Cell3_Discretization
    \/ Cell4_StrikeGuard
    \/ Cell6_AssignABC
    \/ Cell6_RoundC
    \/ Cell6_MaxRegType
    \/ Cell12_Synthesize
    \/ Cell12_SynthesizeRaises
    \/ SAE_CreateModel
    \/ SAE_WriteQmod
    \/ SAE_Synthesize
    \/ SAE_SynthesizeRaises
    \/ SAE_Show
    \/ SAE_Execute
    \/ SAE_ExecuteRaises
    \/ SAE_PostProcess
    \/ Cell19_Assert

Spec == Init /\ [][Next]_vars

(***************************************************************************)
(* The precision utils of cell 5 applied to arbitrary arguments            *)
(***************************************************************************)

\* Arguments range over the eighths in [-MaxEighths/8, MaxEighths/8], each
\* also moved by one unit of the last digit to either side.
MaxEighths == 20

\* Number of successive applications followed.
MaxApplications == 2

PrecisionInputs ==
    {n * (ONE \div 8) + e : n \in (-MaxEighths) .. MaxEighths, e \in {-1, 0, 1}}

PrecInit ==
    /\ WalkIdle
    /\ OptIdle
    /\ GaussIdle
    /\ RepIdle
    /\ DiffIdle
    /\ IntIdle
    /\ px \in PrecisionInputs
    /\ phist = <<>>

\* the value the next application takes as its argument
PrecCurrent == IF phist = <<>> THEN px ELSE phist[Len(phist)][3]

\* round_factor(x) for the current value x
ApplyRoundFactor ==
    /\ Len(phist) < MaxApplications
    /\ phist' = Append(phist, <<"round_factor", PrecCurrent, round_factor(PrecCurrent)>>)
    /\ UNCHANGED <<otherThanPrec, px>>

\* floor_factor(x) for the current value x
ApplyFloorFactor ==
    /\ Len(phist) < MaxApplications
    /\ phist' = Append(phist, <<"floor_factor", PrecCurrent, floor_factor(PrecCurrent)>>)
    /\ UNCHANGED <<otherThanPrec, px>>

PrecNext ==
    \/ ApplyRoundFactor
    \/ ApplyFloorFactor

PrecisionSpec == PrecInit /\ [][PrecNext]_vars

(***************************************************************************)
(* gaussian_discretization called with arbitrary arguments                 *)
(***************************************************************************)

\* Largest qubit count tried.
MaxGaussQubits == 3

\* mu, sigma (6 digits) and stds_around_mean_to_include tried.
GaussMeans == {-GONE, 0, 3 * (GONE \div 2)}

GaussSigmas == {GONE \div 2, GONE, 2 * GONE}

GaussStds == {1, 2, 3}

GaussInit ==
    /\ WalkIdle
    /\ OptIdle
    /\ PrecIdle
    /\ RepIdle
    /\ DiffIdle
    /\ IntIdle
    /\ gin \in [num_qubits : 0 .. MaxGaussQubits, mu : GaussMeans,
                sigma : GaussSigmas, stds : GaussStds]
    /\ gout = << <<>>, <<>> >>
    /\ gdone = FALSE

\* grid_points, probabilities = gaussian_discretization(n, mu, sigma, k)
CallGaussianDiscretization ==
    /\ ~ gdone
    /\ gout' = gaussian_discretization(gin.num_qubits, gin.mu, gin.sigma, gin.stds)
    /\ gdone' = TRUE
    /\ UNCHANGED <<otherThanGauss, gin>>

GaussNext == CallGaussianDiscretization

GaussSpec == GaussInit /\ [][GaussNext]_vars

(***************************************************************************)
(* S_operator applied to every pair of basis values                        *)
(***************************************************************************)

\* S_operator is entered with vertices = j and adjacent_vertices = k.
ShiftInit ==
    /\ wpc = "S_operator"
    /\ ci = num_nodes
    /\ prob = ZeroVec
    /\ printed = <<>>
    /\ vertices \in Nodes
    /\ adjacent_vertices \in Nodes
    /\ fired = {}
    /\ allocated = {"vertices", "adjacent_vertices"}
    /\ sres = -1
    /\ si = 0
    /\ s_in = <<>>
    /\ called = <<>>
    /\ OptIdle
    /\ PrecIdle
    /\ GaussIdle
    /\ RepIdle
    /\ DiffIdle
    /\ IntIdle

ShiftNext ==
    \/ S_operator
    \/ bitwise_swap
    \/ S_operatorReturn

ShiftSpec == ShiftInit /\ [][ShiftNext]_vars

(***************************************************************************)
(* The repeat tutorial: main of repeat.ipynb                               *)
(* psi and phi are held as basis values; qubit i is bit i of the value.    *)
(***************************************************************************)

\* allocate(num_qubits=5, out=psi): psi.len
psi_len == 5

\* Number of times the repeat statement of main is applied in a row.
MaxRepeats == 2

RegisterValues == 0 .. (2^psi_len - 1)

\* Mutant of repeat_exhausted: the last index is left out.
repeat_exhausted_OffByOne(i, count) == i >= count - 1

\* repeat(count, iteration): the iteration runs for i = 0 .. count-1
repeat_exhausted(i, count) == i >= count

RepInit ==
    /\ WalkIdle
    /\ OptIdle
    /\ PrecIdle
    /\ GaussIdle
    /\ DiffIdle
    /\ IntIdle
    /\ rpc = "allocate_psi"
    /\ ri = 0
    /\ psi = <<>>
    /\ phi = <<>>
    /\ psi0 = <<>>
    /\ phi0 = <<>>
    /\ rswaps = <<>>
    /\ rdone = 0

\* allocate(num_qubits=5, out=psi)
RepAllocatePsi ==
    /\ rpc = "allocate_psi"
    /\ psi' = 0
    /\ rpc' = "allocate_phi"
    /\ UNCHANGED <<otherThanRep, ri, phi, psi0, phi0, rswaps, rdone>>

\* allocate(num_qubits=5, out=phi)
RepAllocatePhi ==
    /\ rpc = "allocate_phi"
    /\ phi' = 0
    /\ rpc' = "apply_H"
    /\ UNCHANGED <<otherThanRep, ri, psi, psi0, phi0, rswaps, rdone>>

\* apply_to_all(H, psi): every basis value of the five qubits is in the support
RepApplyH ==
    /\ rpc = "apply_H"
    /\ \E v \in RegisterValues : psi' = v
    /\ rpc' = "apply_X"
    /\ UNCHANGED <<otherThanRep, ri, phi, psi0, phi0, rswaps, rdone>>

\* apply_to_all(X, phi): every qubit of phi is flipped
RepApplyX ==
    /\ rpc = "apply_X"
    /\ phi' = (2^psi_len - 1) - phi
    /\ rpc' = "repeat"
    /\ ri' = 0
    /\ UNCHANGED <<otherThanRep, psi, psi0, phi0, rswaps, rdone>>

\* repeat(count=psi.len, iteration=lambda i: SWAP(phi[i], psi[i])): one iteration
RepeatIteration ==
    /\ rpc = "repeat"
    /\ ~ repeat_exhausted(ri, psi_len)
    /\ phi' = SWAP(phi, psi, ri)[1]
    /\ psi' = SWAP(phi, psi, ri)[2]
    /\ psi0' = IF rdone = 0 /\ ri = 0 THEN psi ELSE psi0
    /\ phi0' = IF rdone = 0 /\ ri = 0 THEN phi ELSE phi0
    /\ rswaps' = Append(rswaps, ri)
    /\ ri' = ri + 1
    /\ UNCHANGED <<otherThanRep, rpc, rdone>>

\* the repeat statement is finished
RepeatReturn ==
    /\ rpc = "repeat"
    /\ repeat_exhausted(ri, psi_len)
    /\ rdone' = rdone + 1
    /\ rpc' = "after_repeat"
    /\ UNCHANGED <<otherThanRep, ri, psi, phi, psi0, phi0, rswaps>>

\* the same repeat statement applied once more to psi and phi
RepeatAgain ==
    /\ rpc = "after_repeat"
    /\ rdone < MaxRepeats
    /\ ri' = 0
    /\ rswaps' = <<>>
    /\ rpc' = "repeat"
    /\ UNCHANGED <<otherThanRep, psi, phi, psi0, phi0, rdone>>

RepNext ==
    \/ RepAllocatePsi
    \/ RepAllocatePhi
    \/ RepApplyH
    \/ RepApplyX
    \/ RepeatIteration
    \/ RepeatReturn
    \/ RepeatAgain

RepeatSpec == RepInit /\ [][RepNext]_vars

(***************************************************************************)
(* zero_diffuzer(x) applied to every basis value of a 4-qubit x            *)
(***************************************************************************)

DiffInit ==
    /\ WalkIdle
    /\ OptIdle
    /\ PrecIdle
    /\ GaussIdle
    /\ RepIdle
    /\ IntIdle
    /\ dpc = "allocate_aux"
    /\ dx \in Nodes
    /\ aux = "none"
    /\ dsign = 1
    /\ dcalls = <<>>

\* zero_diffuzer: aux = QNum('aux'); allocate(1, aux)
ZD_AllocateAux ==
    /\ dpc = "allocate_aux"
    /\ aux' = "0"
    /\ dpc' = "compute_X"
    /\ UNCHANGED <<otherThanDiff, dx, dsign, dcalls>>

\* within_apply, compute: prepare_minus(aux) -- X(x)
prepare_minus_X ==
    /\ dpc = "compute_X"
    /\ aux' = "1"
    /\ dcalls' = Append(dcalls, "prepare_minus")
    /\ dpc' = "compute_H"
    /\ UNCHANGED <<otherThanDiff, dx, dsign>>

\* within_apply, compute: prepare_minus(aux) -- H(x): |1> becomes |->
prepare_minus_H ==
    /\ dpc = "compute_H"
    /\ aux' = "-"
    /\ dpc' = "action"
    /\ UNCHANGED <<otherThanDiff, dx, dsign, dcalls>>

\* within_apply, action: the calls the action lambda makes, applied in order
ZD_Action ==
    /\ dpc = "action"
    /\ dcalls' = dcalls \o zero_diffuzer_action
    /\ dsign' = dsign * zero_diffuzer(dx)
    /\ dpc' = "uncompute_H"
    /\ UNCHANGED <<otherThanDiff, dx, aux>>

\* within_apply, uncompute: the inverse of prepare_minus -- H
ZD_UncomputeH ==
    /\ dpc = "uncompute_H"
    /\ aux' = "1"
    /\ dpc' = "uncompute_X"
    /\ UNCHANGED <<otherThanDiff, dx, dsign, dcalls>>

\* within_apply, uncompute: the inverse of prepare_minus -- X; zero_diffuzer returns
ZD_UncomputeX ==
    /\ dpc = "uncompute_X"
    /\ aux' = "0"
    /\ dpc' = "done"
    /\ UNCHANGED <<otherThanDiff, dx, dsign, dcalls>>

DiffNext ==
    \/ ZD_AllocateAux
    \/ prepare_minus_X
    \/ prepare_minus_H
    \/ ZD_Action
    \/ ZD_UncomputeH
    \/ ZD_UncomputeX

DiffuzerSpec == DiffInit /\ [][DiffNext]_vars

(***************************************************************************)
(* integrator(x, ref, res) applied to basis states                         *)
(* x is max_reg (MAX_NUM_QUBITS qubits, MAX_FRAC_PLACES fraction digits);  *)
(* ref is integrator_reg (MAX_NUM_QUBITS qubits).                          *)
(***************************************************************************)

\* the bit patterns of a register of MAX_NUM_QUBITS qubits
RegBits == 0 .. (2^MAX_NUM_QUBITS - 1)

\* The fraction_digits ref arrives with: integrator_reg is declared by
\* allocate_num(MAX_NUM_QUBITS, False, MAX_FRAC_PLACES, ..) in main of cell 12
\* and is a slice of the qubit array full_reg (an integer) in get_main.
RefFractionDigits == {0, MAX_FRAC_PLACES}

\* prepare_exponential_state(-exp_rate, ref): the weight of the basis state
\* |r>, e^(exp_rate * r), before normalisation (5 digits)
g(r) == OExp(r * exp_rate)

\* Mutant of comparator: a strict comparison, x_uint > ref.
comparator_Strict(xu, ref) == xu * 2^(ref.fraction_digits) > ref.bits

\* x_uint >= ref : the registers are compared by value, x_uint an integer and
\* ref its bits divided by 2^fraction_digits
comparator(xu, ref) == xu * 2^(ref.fraction_digits) >= ref.bits

IntInit ==
    /\ WalkIdle
    /\ OptIdle
    /\ PrecIdle
    /\ GaussIdle
    /\ RepIdle
    /\ DiffIdle
    /\ ipc = "prepare"
    /\ ix \in RegBits
    /\ x_uint = "none"
    /\ iref \in [fraction_digits : RefFractionDigits, bits : {0}]
    /\ ires \in {0, 1}
    /\ ires0 = ires

\* integrator: prepare_exponential_state(-exp_rate, ref): every basis state
\* of ref has a positive weight
INT_PrepareExponentialState ==
    /\ ipc = "prepare"
    /\ \E r \in RegBits : g(r) > 0 /\ iref' = [iref EXCEPT !.bits = r]
    /\ ipc' = "bind"
    /\ UNCHANGED <<otherThanInt, ix, x_uint, ires, ires0>>

\* integrator: x_uint = QNum("x_uint", x.size, False, 0); bind(x, x_uint):
\* the qubits of x, read as an unsigned integer
INT_BindX ==
    /\ ipc = "bind"
    /\ x_uint' = ix
    /\ ipc' = "compare"
    /\ UNCHANGED <<otherThanInt, ix, iref, ires, ires0>>

\* integrator: res ^= x_uint >= ref
INT_Compare ==
    /\ ipc = "compare"
    /\ ires' = IF comparator(x_uint, iref) THEN 1 - ires ELSE ires
    /\ ipc' = "bind_back"
    /\ UNCHANGED <<otherThanInt, ix, x_uint, iref, ires0>>

\* integrator: bind(x_uint, x)
INT_BindBack ==
    /\ ipc = "bind_back"
    /\ ix' = x_uint
    /\ x_uint' = "none"
    /\ ipc' = "done"
    /\ UNCHANGED <<otherThanInt, iref, ires, ires0>>

IntNext ==
    \/ INT_PrepareExponentialState
    \/ INT_BindX
    \/ INT_Compare
    \/ INT_BindBack

IntegratorSpec == IntInit /\ [][IntNext]_vars

(***************************************************************************)
(* Claims about the quantum-walk notebook                                  *)
(***************************************************************************)

\* The vector printed for node 0 in the notebook's recorded output.
RecordedNode0 == [k \in Nodes |-> IF k = 1 THEN P_one ELSE 0]

\* C1: for the endpoint nodes i = 0 and i = N-1 of the 16-node line, the
\* vector built by C_iteration has 1.0 at the single neighbour (index 1,
\* resp. N-2) and 0 at every other index; node 0 yields [0,1,0,...,0].
C1_EndpointVectors ==
    \A n \in 1 .. Len(printed) :
        LET i == printed[n][1]
            p == printed[n][2]
        IN  /\ i = 0 =>
                /\ p = RecordedNode0
                /\ \A k \in Nodes : p[k] = IF k = 1 THEN P_one ELSE 0
            /\ i = num_nodes - 1 =>
                \A k \in Nodes : p[k] = IF k = num_nodes - 2 THEN P_one ELSE 0

C1_Witness ==
    /\ Len(printed) = num_nodes
    /\ printed[1][1] = 0
    /\ printed[num_nodes][1] = num_nodes - 1
    /\ printed[num_nodes][2][num_nodes - 2] = P_one

\* C2: for every interior node 0 < i < N-1 the vector built by C_iteration
\* has 0.5 at index i-1, 0.5 at index i+1 and 0 elsewhere (index i included).
C2_InteriorVectors ==
    \A n \in 1 .. Len(printed) :
        LET i == printed[n][1]
            p == printed[n][2]
        IN  (0 < i /\ i < num_nodes - 1) =>
                \A k \in Nodes :
                    p[k] = IF k = i - 1 \/ k = i + 1 THEN P_half ELSE 0

C2_Witness ==
    \E n \in 1 .. Len(printed) :
        /\ printed[n][1] = 5
        /\ printed[n][2][4] = P_half
        /\ printed[n][2][6] = P_half
        /\ printed[n][2][5] = 0

\* C3: for every node index i in 0..N-1 the vector built by C_iteration has
\* only non-negative entries and its entries sum to exactly 1.0.
C3_ProbabilityVector ==
    /\ \A n \in 1 .. Len(printed) :
        LET p == printed[n][2]
        IN  /\ \A k \in Nodes : p[k] >= 0
            /\ SumVec(p, num_nodes) = P_one
    /\ wpc = "done" => {printed[n][1] : n \in 1 .. Len(printed)} = Nodes

C3_Witness ==
    /\ wpc = "done"
    /\ Len(printed) = num_nodes
    /\ SumVec(printed[1][2], num_nodes) = P_one
    /\ SumVec(printed[6][2], num_nodes) = P_one

(***************************************************************************)
(* Claims about the rainbow-options notebook                               *)
(***************************************************************************)

\* C4: whenever the strike price exceeds the maximum reachable asset value
\* the warning is displayed and the process stops: no later step (model
\* creation, synthesis, execution, post-processing, final assertion) is
\* performed in that run.
C4_GuardStopsRun ==
    /\ (opc # "cell1" /\ opc # "cell2" /\ opc # "cell3" /\ opc # "cell4")
          => (warned <=> K * ONE >= MaxAssetValue)
    /\ warned =>
          /\ steps = <<>>
          /\ qmod = "none"
          /\ qprog = "none"
          /\ parsed_res = NoParsed
          /\ asserted = "none"

\* C5 as stated: the final assertion accepts a run only when the
\* post-processed interval [lo, hi] lies within [-5, 45].
C5_AcceptsOnlyContained ==
    asserted = "passed" =>
        (-5 * ONE <= parsed_res[2][1] /\ parsed_res[2][2] <= 45 * ONE)

\* C5 (amended): the final assertion passes exactly when the post-processed
\* interval [lo, hi] overlaps the sanity range, i.e. hi >= -5 and lo <= 45;
\* it fails exactly when the interval lies wholly below -5 or wholly above 45.
C5_AcceptsIffOverlap ==
    /\ asserted = "passed" =>
          (parsed_res[2][2] >= -5 * ONE /\ parsed_res[2][1] <= 45 * ONE)
    /\ asserted = "failed" =>
          (parsed_res[2][2] < -5 * ONE \/ parsed_res[2][1] > 45 * ONE)
    /\ (opc = "done" \/ (opc = "error" /\ asserted # "none")) =>
          /\ asserted \in {"passed", "failed"}
          /\ opc = "done" <=> asserted = "passed"

C5_Witness ==
    /\ asserted = "passed"
    /\ parsed_res[2][1] < -5 * ONE
    /\ parsed_res[2][2] > 45 * ONE

PostProcessed == \E n \in 1 .. Len(steps) : steps[n] = <<18, "post_process">>

\* the one affine map of parse_result_integration
AffineMap(v) == OMul(v, OMul(PC, PB)) + OMul(PC, PA) - K * ONE

\* C7: parse_result_integration applies one and the same map
\* v -> v*(C*B) + (C*A) - K to the estimation and to both endpoints of the
\* confidence interval, with C*B > 0: the order of the endpoints is kept and
\* the option value lies inside the returned interval whenever the raw
\* estimation lies inside the raw interval.
C7_AffinePostProcessing ==
    PostProcessed =>
        LET est == iqae_res.estimation
            lo  == iqae_res.confidence_interval[1]
            hi  == iqae_res.confidence_interval[2]
            val == parsed_res[1]
            plo == parsed_res[2][1]
            pup == parsed_res[2][2]
        IN  /\ OMul(PC, PB) > 0
            /\ val = AffineMap(est)
            /\ plo = AffineMap(lo)
            /\ pup = AffineMap(hi)
            /\ lo <= hi => plo <= pup
            /\ lo < hi => plo < pup
            /\ (lo <= est /\ est <= hi) => (plo <= val /\ val <= pup)

C7_Witness ==
    /\ PostProcessed
    /\ iqae_res.confidence_interval[1] < iqae_res.estimation
    /\ iqae_res.estimation < iqae_res.confidence_interval[2]
    /\ parsed_res[2][1] < parsed_res[1]
    /\ parsed_res[1] < parsed_res[2][2]
    /\ K = K_published

InSAE(e) == e[1] = 18

\* the calls made by synthesize_and_execute so far, in order
SAECalls ==
    LET q == SelectSeq(steps, InSAE)
    IN  [n \in 1 .. Len(q) |-> q[n][2]]

SAEOrder ==
    <<"create_model", "write_qmod", "synthesize", "show", "execute", "post_process">>

Called(name) == \E n \in 1 .. Len(SAECalls) : SAECalls[n] = name

\* C9: in every run of synthesize_and_execute the steps happen in the order
\* create_model, write of the model artifact, synthesize, show, execute,
\* post_process; synthesis never starts before the model is created and
\* written, execution never before synthesis returned a program, and
\* post_process is applied only to a result returned by execute.
C9_StepOrder ==
    /\ Len(SAECalls) <= Len(SAEOrder)
    /\ \A n \in 1 .. Len(SAECalls) : SAECalls[n] = SAEOrder[n]
    /\ Called("synthesize") => (qmod = "main_model" /\ artifact = qmod)
    /\ Called("execute") => qprog = "program"
    /\ Called("post_process") =>
          /\ iqae_res # NoResult
          /\ parsed_res = parse_result_integration(iqae_res, K)

C9_Witness ==
    /\ SAECalls = SAEOrder
    /\ artifact = "main_model"
    /\ qprog = "program"
    /\ iqae_res.estimation = 5190

\* C10 as stated: every listed name is assigned once and computed once; no
\* cell or function reassigns or recomputes it afterwards.
C10_AssignedAndComputedOnce ==
    \A n \in Names : writes[n] <= 1 /\ computes[n] <= 1

\* C10 (amended): every listed name is assigned by top-level cell code only,
\* never by a function.  All except c are assigned exactly once; c is
\* assigned twice inside cell 6 (the unrounded quotient, then
\* round_factor of it) before any consumer reads it and keeps the rounded
\* value from then on.  asset_geq_strike_price re-evaluates the expressions
\* of a and b into locals at each model creation; the locals equal the
\* globals, which stay untouched.
C10_AssignedAtTopLevel ==
    /\ \A n \in Names \ {"c"} : writes[n] <= 1
    /\ writes["c"] <= 2
    /\ writes["c"] = 1 => (c = c_raw /\ opc = "cell6_round")
    /\ writes["c"] = 2 => c = round_factor(c_raw)
    /\ c_read => writes["c"] = 2
    /\ \A n \in Names \ {"a", "b"} : computes[n] <= 1
    /\ locals # <<>> => locals = <<a, b>>
    /\ (opc = "cell12" \/ opc = "cell18" \/ opc = "cell19" \/ opc = "done") =>
          /\ \A n \in Names \ {"c"} : writes[n] = 1
          /\ writes["c"] = 2

C10_Witness ==
    /\ opc = "done"
    /\ writes["c"] = 2
    /\ c = round_factor(c_raw)
    /\ c # c_raw
    /\ computes["a"] = 3
    /\ locals = <<a, b>>
    /\ writes["a"] = 1

(***************************************************************************)
(* Claims about the precision utils and gaussian_discretization            *)
(***************************************************************************)

\* 2^-FRAC_PLACES as a 5-digit value
Quantum == ONE \div (2^FRAC_PLACES)

\* C6: round_factor and floor_factor are idempotent at FRAC_PLACES = 2:
\* round_factor(round_factor(x)) = round_factor(x), floor_factor(floor_factor(x))
\* = floor_factor(x), and each result is an integer multiple of 2^-FRAC_PLACES.
C6_Idempotent ==
    /\ \A n \in 1 .. Len(phist) : phist[n][3] % Quantum = 0
    /\ \A n \in 2 .. Len(phist) :
          phist[n][1] = phist[n - 1][1] => phist[n][3] = phist[n - 1][3]
    /\ round_factor(round_factor(px)) = round_factor(px)
    /\ floor_factor(floor_factor(px)) = floor_factor(px)

C6_Witness ==
    /\ Len(phist) = 2
    /\ phist[1][1] = "round_factor"
    /\ phist[2][1] = "round_factor"
    /\ px = 3 * (ONE \div 8)
    /\ phist[1][3] = ONE \div 2
    /\ phist[2][3] = ONE \div 2

\* C8: gaussian_discretization(n, mu, sigma, k) returns, for every qubit
\* count n, exactly 2^n probabilities, all non-negative and summing to 1.0 up
\* to rounding (one unit of the last digit per bin), with exactly 2^n grid
\* points.
C8_GaussianPmf ==
    gdone =>
        LET bins  == 2^(gin.num_qubits)
            grid  == gout[1]
            probs == gout[2]
            total == SumSeq(probs, Len(probs))
        IN  /\ Len(probs) = bins
            /\ Len(grid) = bins
            /\ \A j \in 1 .. Len(probs) : probs[j] >= 0
            /\ GONE - bins <= total
            /\ total <= GONE

C8_Witness ==
    /\ gdone
    /\ gin.num_qubits = 3
    /\ gin.stds = 1
    /\ Len(gout[2]) = 8
    /\ gout[2][1] > 0
    /\ SumSeq(gout[2], 8) >= GONE - 8

(***************************************************************************)
(* Claims about the repeat tutorial                                        *)
(***************************************************************************)

\* the repeat statement has started at least once
RepeatStarted == (rpc = "repeat" /\ (ri > 0 \/ rdone > 0)) \/ rpc = "after_repeat"

\* bit i of psi (resp. phi) after rdone complete repeats and ri iterations of
\* the running one: exchanged an odd number of times or an even number
ExchangedOdd(i) == (rdone + (IF rpc = "repeat" /\ i < ri THEN 1 ELSE 0)) % 2 = 1

\* C11: repeat(count=psi.len, iteration=...) runs the iteration exactly
\* count = 5 times, once for each index i = 0..4 in turn, each time swapping
\* phi[i] with psi[i]; when it is finished psi holds what phi held after the
\* X gates and phi what psi held after the H gates, and the same repeat
\* applied a second time restores the original contents.
C11_RepeatSwapsEveryIndex ==
    /\ (rpc = "repeat" \/ rpc = "after_repeat") =>
          /\ ri <= psi_len
          /\ Len(rswaps) = ri
          /\ \A n \in 1 .. Len(rswaps) : rswaps[n] = n - 1
    /\ rpc = "after_repeat" => rswaps = <<0, 1, 2, 3, 4>>
    /\ RepeatStarted =>
          /\ phi0 = 2^psi_len - 1
          /\ psi0 \in RegisterValues
          /\ \A i \in 0 .. (psi_len - 1) :
                /\ Bit(psi, i) = IF ExchangedOdd(i) THEN Bit(phi0, i) ELSE Bit(psi0, i)
                /\ Bit(phi, i) = IF ExchangedOdd(i) THEN Bit(psi0, i) ELSE Bit(phi0, i)
    /\ (rpc = "after_repeat" /\ rdone = 1) => (psi = phi0 /\ phi = psi0)
    /\ (rpc = "after_repeat" /\ rdone = 2) => (psi = psi0 /\ phi = phi0)

C11_Witness ==
    /\ rpc = "after_repeat"
    /\ rdone = 2
    /\ psi0 = 10
    /\ psi = 10
    /\ phi = 31
    /\ rswaps = <<0, 1, 2, 3, 4>>

(***************************************************************************)
(* Claims about S_operator, zero_diffuzer, C_operator and main of the      *)
(* quantum-walk notebook                                                   *)
(***************************************************************************)

\* (j, k) is an edge of the line graph
IsEdge(j, k) == j - k = 1 \/ j - k = -1

\* C12: for every basis pair (j, k) in 0..15 x 0..15 S_operator exchanges the
\* contents of vertices and adjacent_vertices exactly when j - k = 1 or
\* j - k = -1, and leaves both registers unchanged for every other pair.
C12_ShiftOnEdges ==
    (wpc = "bitwise_swap" \/ wpc = "done") =>
        LET j == s_in[1]
            k == s_in[2]
        IN  /\ sres = 1 <=> IsEdge(j, k)
            /\ sres = 0 <=> ~ IsEdge(j, k)
            /\ \A i \in 0 .. (size - 1) :
                  /\ Bit(vertices, i) =
                        IF IsEdge(j, k) /\ i < si THEN Bit(k, i) ELSE Bit(j, i)
                  /\ Bit(adjacent_vertices, i) =
                        IF IsEdge(j, k) /\ i < si THEN Bit(j, i) ELSE Bit(k, i)
            /\ wpc = "done" =>
                  /\ si = size
                  /\ IsEdge(j, k) => (vertices = k /\ adjacent_vertices = j)
                  /\ ~ IsEdge(j, k) => (vertices = j /\ adjacent_vertices = k)

C12_Witness ==
    /\ wpc = "done"
    /\ s_in = <<7, 8>>
    /\ vertices = 8
    /\ adjacent_vertices = 7
    /\ sres = 1

\* C13: zero_diffuzer implements P = 2|0><0| - I on x: diffuzer_oracle is
\* applied to (aux, x) between prepare_minus(aux) and its uncomputation, so
\* every basis state |x> with x != 0 acquires the factor -1 and |0> is left
\* unchanged.
C13_PhaseKickback ==
    /\ (dpc = "uncompute_H" \/ dpc = "uncompute_X" \/ dpc = "done") =>
          dcalls = <<"prepare_minus", "diffuzer_oracle">>
    /\ dpc = "done" => dsign = IF dx # 0 THEN -1 ELSE 1

(***************************************************************************)
(* Claims about integrator                                                 *)
(***************************************************************************)

RECURSIVE SumG(_)
\* g(0) + ... + g(n)
SumG(n) == IF n < 0 THEN 0 ELSE g(n) + SumG(n - 1)

RECURSIVE CollectedUpTo(_, _, _)
\* the weight of the basis states r <= n of ref on which res is flipped,
\* for the given bits of x and the given type of ref
CollectedUpTo(n, x, fd) ==
    IF n < 0 THEN 0
    ELSE (IF comparator(x, [fraction_digits |-> fd, bits |-> n]) THEN g(n) ELSE 0)
             + CollectedUpTo(n - 1, x, fd)

C_operatorReturned ==
    wpc = "S_operator" \/ wpc = "bitwise_swap" \/ wpc = "done"

\* the invocations of C_iteration so far are those for i = 0, 1, ..., in
\* ascending order and once each; the control condition has held for i =
\* vertices and for no other i
C16_OnceEachAscending ==
    /\ \A n \in 1 .. Len(printed) : printed[n][1] = n - 1
    /\ Len(printed) <= num_nodes
    /\ wpc = "C_operator" =>
          /\ Len(printed) = ci
          /\ fired = IF vertices < ci THEN {vertices} ELSE {}
    /\ C_operatorReturned =>
          /\ Len(printed) = num_nodes
          /\ ci = num_nodes
          /\ Cardinality(fired) = 1
    /\ wpc = "S_operator" => fired = {vertices}

\* C16: C_operator invokes C_iteration exactly once for each node i = 0, 1,
\* ..., 15 in ascending order and then terminates; each invocation is
\* controlled on vertices == i, so for every basis value v of vertices
\* exactly one invocation's control condition holds, the one with i = v.
C16_LoopRunsOnceAndEnds ==
    /\ [] C16_OnceEachAscending
    /\ <> C_operatorReturned

C16_Witness ==
    /\ wpc = "S_operator"
    /\ Len(printed) = num_nodes
    /\ printed[12][1] = 11
    /\ vertices = 11
    /\ fired = {11}

\* the registers allocated by the first n calls of main
AllocatedBy(n) ==
    UNION {called[m][2] : m \in {q \in 1 .. n : called[q][1] = "allocate"}}

\* the positions in called of the calls of the function f
CallsOf(f) == {n \in 1 .. Len(called) : called[n][1] = f}

\* no function is applied to a register before the register is allocated,
\* and S_operator is never called before C_operator
AllocatedBeforeUse ==
    /\ \A n \in 1 .. Len(called) :
          called[n][1] # "allocate" => called[n][2] \subseteq AllocatedBy(n - 1)
    /\ \A n \in CallsOf("S_operator") : \E m \in CallsOf("C_operator") : m < n
    /\ \A n \in CallsOf("C_operator") : \E m \in CallsOf("hadamard_transform") : m < n
    /\ wpc = "C_operator" => {"vertices", "adjacent_vertices"} \subseteq allocated
    /\ (wpc = "bitwise_swap" \/ wpc = "done") =>
          /\ {"vertices", "adjacent_vertices"} \subseteq allocated
          /\ Len(printed) = num_nodes

MainOrder ==
    << <<"allocate", {"vertices"}>>,
       <<"hadamard_transform", {"vertices"}>>,
       <<"allocate", {"adjacent_vertices"}>>,
       <<"C_operator", {"vertices", "adjacent_vertices"}>>,
       <<"S_operator", {"vertices", "adjacent_vertices"}>> >>

====
